---- MODULE Spec2Model ----
(***************************************************************************)
(* check_binkp_node: one probe of a BinkP node.                            *)
(*                                                                         *)
(* binkp_node_parse connects to host:port, sleeps one second, drains the   *)
(* socket, decodes the buffer with GreedyRange(binkp10format), scans the   *)
(* frames for a "TIME " text, parses it with dateparser and returns the    *)
(* drift, or None.  BinkpNodeCheck.probe turns the result into a metric.   *)
(*                                                                         *)
(* Bytes are integers 0..255, texts are sequences of bytes.  Time runs in  *)
(* ticks; TicksPerSec ticks make one second, so that .replace(microsecond  *)
(* = 0) is a real truncation.                                              *)
(***************************************************************************)
EXTENDS Integers, Sequences, FiniteSets, TLC

VARIABLES
    pc,            \* position of the probe in binkp_node_parse
    port,          \* the port argument (argparse type=int: any integer)
    s,             \* the socket: "none" (s = None), "open", "closed"
    realdata,      \* bytearray accumulated by the read loop
    pending,       \* bytes of the frame the peer is in the middle of sending
    sentFrames,    \* number of frames the peer has started to send
    x,             \* ListContainer returned by parser.parse(realdata)
    idx,           \* index of the next item of x the for loop takes
    node_time,     \* text handed to dateparser.parse ("unset" before)
    raisedOn,      \* texts on which dateparser.parse raised (it is a function)
    binkpdate,     \* what dateparser.parse returned for the selected frame
    req_duration,  \* line 73, in ticks ("unset" before)
    result,        \* what binkp_node_parse returned / raised ("unset" before)
    printed,       \* the diagnostic printed on the failure path ("" if none)
    metric,        \* value of the Metric built by BinkpNodeCheck.probe
    now,           \* the wall clock, absolute ticks
    systz,         \* offset of the host's system timezone, ticks
    start_time,    \* line 28: naive local datetime, ticks
    inspected,     \* history: indices of x the for loop has taken
    connectedAt,   \* history: clock when s.connect returned ("unset" before)
    drainedAt,     \* history: clock when the read loop ended ("unset" before)
    sockets,       \* history: number of sockets created
    streaming,     \* 0, or 1 + parity of the chunks received beyond the frames
    calledAt,      \* history: clock when binkp_node_parse was called
    wire,          \* history: the frames the peer has begun to write, in order
    connects,      \* history: number of s.connect calls made
    state          \* state the check evaluates the metric to ("" before)

vars == <<pc, port, s, realdata, pending, sentFrames, x, idx, node_time,
          raisedOn, binkpdate, req_duration, result, printed, metric, now,
          systz, start_time, inspected, connectedAt, drainedAt, sockets,
          streaming, calledAt, wire, connects, state>>

----------------------------------------------------------------------------
(* Bounds of the model *)

\* frames the peer sends before it goes silent, closes or only streams filler
MaxFrames == 2

(* Program constants *)
CONN_TIMEOUT == 10
READ_TIMEOUT == 3
RecvSize == 128
GraceSeconds == 1
DefaultPort == 24554
\* ports are 16 bits wide
MaxPort == 2^16 - 1
FailMetric == 0 - 1
TicksPerSec == 2

----------------------------------------------------------------------------
(* Bytes and texts *)

Drop(q, n) == SubSeq(q, n + 1, Len(q))
Take(q, n) == SubSeq(q, 1, n)

Min(a, b) == IF a <= b THEN a ELSE b
Abs(a) == IF a < 0 THEN 0 - a ELSE a

\* "TIME " in ASCII
TimePrefix == <<84, 73, 77, 69, 32>>

\* bytes.decode('ascii'): fails on any byte above 127
IsAscii(b) == \A i \in 1..Len(b) : b[i] < 128

\* str.startswith
StartsWith(t, p) == Len(t) >= Len(p) /\ Take(t, Len(p)) = p

\* str.find(sep): least 1-based index at which sep occurs in t, 0 if none
Find(t, sep) ==
    LET hits == {i \in 1..(Len(t) - Len(sep) + 1) :
                     SubSeq(t, i, i + Len(sep) - 1) = sep}
    IN  IF hits = {} THEN 0 ELSE CHOOSE i \in hits : \A j \in hits : i <= j

\* str.split(sep): the pieces between the non-overlapping occurrences of sep,
\* found left to right
RECURSIVE Split(_, _)
Split(t, sep) ==
    LET i == Find(t, sep)
    IN  IF i = 0 THEN <<t>>
        ELSE <<Take(t, i - 1)>> \o Split(Drop(t, i + Len(sep) - 1), sep)

----------------------------------------------------------------------------
(* binkp10format and GreedyRange (construct) *)

\* binkp10format with "string"/Bytes(this.length): the payload taken one
\* byte too long
binkp10format_WholeLength(buf) ==
    IF Len(buf) < 3 \/ Len(buf) - 3 < buf[2]
    THEN [ok |-> FALSE]
    ELSE [ok    |-> TRUE,
          item  |-> [type    |-> buf[1],
                     length  |-> buf[2],
                     cmdargs |-> buf[3],
                     string  |-> SubSeq(buf, 4, 3 + buf[2])],
          rest  |-> Drop(buf, 3 + buf[2])]

\* binkp10format with a negative byte count read as no payload
binkp10format_ZeroAsEmpty(buf) ==
    IF Len(buf) < 3
    THEN [ok |-> FALSE]
    ELSE LET length == buf[2]
             count  == IF length = 0 THEN 0 ELSE length - 1
         IN  IF Len(buf) - 3 < count
             THEN [ok |-> FALSE]
             ELSE [ok    |-> TRUE,
                   item  |-> [type    |-> buf[1],
                              length  |-> length,
                              cmdargs |-> buf[3],
                              string  |-> SubSeq(buf, 4, 3 + count)],
                   rest  |-> Drop(buf, 3 + count)]

\* Struct.parse on the head of buf: three Int8ub fields, then
\* Bytes(this.length - 1).  A field that cannot be read whole, or a negative
\* byte count, raises StreamError: ok = FALSE.
binkp10format(buf) ==
    IF Len(buf) < 3
    THEN [ok |-> FALSE]
    ELSE LET length == buf[2]
         IN  IF length - 1 < 0 \/ Len(buf) - 3 < length - 1
             THEN [ok |-> FALSE]
             ELSE [ok    |-> TRUE,
                   item  |-> [type    |-> buf[1],
                              length  |-> length,
                              cmdargs |-> buf[3],
                              string  |-> SubSeq(buf, 4, 3 + length - 1)],
                   rest  |-> Drop(buf, 3 + length - 1)]

\* GreedyRange(subcon).parse: parses items until the subcon raises, then
\* seeks back to the start of the failed item and returns the list so far.
\* It raises nothing itself; what is left of the buffer is not looked at.
RECURSIVE GreedyRange(_)
GreedyRange(buf) ==
    LET r == binkp10format(buf)
    IN  IF r.ok THEN <<r.item>> \o GreedyRange(r.rest) ELSE <<>>

----------------------------------------------------------------------------
(* The peer: what may arrive on the socket *)

\* building blocks of the payloads the peer sends: the TIME prefix, a
\* printable character ("1"), a byte that is not ASCII
Tokens == {TimePrefix, <<49>>, <<200>>}

\* payloads: empty, one token, "TIME " followed by a token, "1TIME "
Payloads ==
    {<<>>} \cup Tokens \cup {TimePrefix \o b : b \in Tokens}
           \cup {<<49>> \o TimePrefix}

\* a frame as the peer writes it: the length byte counts cmdargs + payload
Encode(type, cmdargs, payload) == <<type, Len(payload) + 1, cmdargs>> \o payload

\* M_NUL command frames, and a header whose length byte is 0
WireFrames == {Encode(128, 0, p) : p \in Payloads} \cup {<<128, 0, 0>>}

----------------------------------------------------------------------------
(* Clock, timezones and dateparser *)

\* offsets of the timezones in play (whole seconds), in ticks
TzOffsets == {0 - TicksPerSec, 0, TicksPerSec}

\* wall-clock readings a TIME text may resolve to, in ticks
RemoteWalls == {8, 21}

\* clock when the probe is called: on a second, and half a second later
StartClocks == {10, 11}

\* time a connect / the decoding and parsing may take, in ticks
Delays == {0, TicksPerSec}

\* optional values: <<>> is "not set", <<v>> is v
Unset == <<>>
Some(v) == <<v>>

\* datetime.replace(microsecond=0)
TruncSec(t) == t - (t % TicksPerSec)

\* datetime.now(tz), as the wall-clock reading in the zone of offset tz;
\* datetime.now() and datetime.now(None) read the system zone
WallNow(clock, tz) == clock + tz

\* what dateparser.parse may return for a text: None, a naive datetime, an
\* aware datetime (wall reading + offset of its tzinfo), or an exception.
\* The library is not part of the repository: every outcome is possible for
\* a non-empty text, None for the empty one.
ParserResults(text) ==
    IF text = <<>>
    THEN {[kind |-> "none", wall |-> 0, tz |-> 0]}
    ELSE {[kind |-> "none", wall |-> 0, tz |-> 0],
          [kind |-> "raise", wall |-> 0, tz |-> 0]}
         \cup {[kind |-> "naive", wall |-> w, tz |-> 0] : w \in RemoteWalls}
         \cup {[kind |-> "aware", wall |-> w, tz |-> z] :
                   w \in RemoteWalls, z \in TzOffsets}

\* line 65: d_item.split('TIME ')[1]
NodeTime(d_item) == Split(d_item, TimePrefix)[2]

\* line 71 as datetime.now().replace(microsecond=0): the zone of the parsed
\* date is not passed on
Today_SystemZone(clock, date, hosttz) == TruncSec(WallNow(clock, hosttz))

\* line 71: datetime.now(binkpdate.tzinfo).replace(microsecond=0); tzinfo is
\* None for a naive datetime, and now(None) reads the system zone
Today(clock, date, hosttz) ==
    TruncSec(WallNow(clock, IF date.kind = "aware" THEN date.tz ELSE hosttz))

\* line 72: both operands carry the same tzinfo, so Python subtracts the
\* wall readings
Delta(today, date) == today - date.wall

\* line 73 as datetime.utcnow() - start_time
ReqDuration_Utc(clock, hosttz, started) == clock - started

\* line 73: datetime.now() - start_time, both naive readings of the system zone
ReqDuration(clock, hosttz, started) == WallNow(clock, hosttz) - started

\* line 74 without abs()
Drift_Signed(delta, duration) == delta - duration

\* line 74
Drift(delta, duration) == Abs(delta - duration)

----------------------------------------------------------------------------
(* Results *)

NoResult     == [kind |-> "unset", value |-> 0]
ReturnNone   == [kind |-> "None", value |-> 0]
ReturnDrift(d) == [kind |-> "drift", value |-> d]
Raised       == [kind |-> "exception", value |-> 0]

\* the value each failure path returns
RetRecvError    == ReturnNone    \* line 48
RetNoData       == ReturnNone    \* line 52
RetDateFail     == ReturnNone    \* line 69
RetNotFound     == ReturnNone    \* line 80
RetConnectError == ReturnNone    \* line 83

\* lines 84-86 without the close
Finally_NoClose(sock) == sock

\* lines 84-86: finally: if s: s.close()
Finally(sock) == IF sock # "none" THEN "closed" ELSE sock

Ports == {DefaultPort, MaxPort + 1, 0 - 1}

\* offsets the host's system timezone may have, in ticks
SysZones == {0, TicksPerSec}

----------------------------------------------------------------------------
(* binkp_node_parse *)

Init ==
    /\ pc = "idle"
    /\ port = DefaultPort
    /\ s = "none"
    /\ realdata = <<>>
    /\ pending = <<>>
    /\ sentFrames = 0
    /\ x = <<>>
    /\ idx = 1
    /\ node_time = Unset
    /\ raisedOn = {}
    /\ binkpdate = Unset
    /\ req_duration = Unset
    /\ result = NoResult
    /\ printed = <<>>
    /\ metric = Unset
    /\ now \in StartClocks
    /\ systz \in SysZones
    /\ start_time = 0
    /\ inspected = <<>>
    /\ connectedAt = Unset
    /\ drainedAt = Unset
    /\ sockets = 0
    /\ streaming = 0
    /\ calledAt = now
    /\ wire = <<>>
    /\ connects = 0
    /\ state = ""

\* a return or a raise out of the try block: the finally clause runs, the
\* function ends
Leave(res, msgs) ==
    /\ result' = res
    /\ printed' = printed \o msgs
    /\ s' = Finally(s)
    /\ pc' = "done"

\* lines 27-29: the call; start_time = datetime.now().replace(microsecond=0)
Call ==
    /\ pc = "idle"
    /\ \E p \in Ports : port' = p
    /\ start_time' = TruncSec(WallNow(now, systz))
    /\ s' = "none"
    /\ pc' = "socket"
    /\ UNCHANGED <<realdata, pending, sentFrames, x, idx, node_time, raisedOn,
                   binkpdate, req_duration, result, printed, metric, now,
                   systz, inspected, connectedAt, drainedAt, sockets, streaming,
                   calledAt, wire, connects, state>>

\* lines 31-32: socket.socket(...) and settimeout(connect_timeout)
SocketOk ==
    /\ pc = "socket"
    /\ s' = "open"
    /\ sockets' = sockets + 1
    /\ pc' = "connect"
    /\ UNCHANGED <<port, realdata, pending, sentFrames, x, idx, node_time,
                   raisedOn, binkpdate, req_duration, result, printed, metric,
                   now, systz, start_time, inspected, connectedAt, drainedAt,
                   streaming, calledAt, wire, connects, state>>

\* line 31 raising OSError (no descriptor left): caught at line 81, s is None
SocketFail ==
    /\ pc = "socket"
    /\ Leave(RetConnectError, <<"Connection error">>)
    /\ UNCHANGED <<port, realdata, pending, sentFrames, x, idx, node_time,
                   raisedOn, binkpdate, req_duration, metric, now, systz,
                   start_time, inspected, connectedAt, drainedAt, sockets,
                   streaming, calledAt, wire, connects, state>>

\* line 33 with a host that resolves and a port outside 0..65535: s.connect
\* raises OverflowError, which is no socket.error; only the finally clause runs
ConnectBadPort ==
    /\ pc = "connect"
    /\ connects' = connects + 1
    /\ ~(port \in 0..MaxPort)
    /\ Leave(Raised, <<>>)
    /\ UNCHANGED <<port, realdata, pending, sentFrames, x, idx, node_time,
                   raisedOn, binkpdate, req_duration, metric, now, systz,
                   start_time, inspected, connectedAt, drainedAt, sockets,
                   streaming, calledAt, wire, state>>

\* line 33 failing, with one more attempt on a new socket before giving up
ConnectFail_RetryOnce ==
    /\ pc = "connect"
    /\ connects' = connects + 1
    /\ \E d \in Delays \cup {CONN_TIMEOUT * TicksPerSec} : now' = now + d
    /\ IF connects = 0
       THEN /\ pc' = "socket"
            /\ s' = Finally(s)
            /\ printed' = Append(printed, "Connection error")
            /\ result' = result
       ELSE Leave(RetConnectError, <<"Connection error">>)
    /\ UNCHANGED <<port, realdata, pending, sentFrames, x, idx, node_time,
                   raisedOn, binkpdate, req_duration, metric, systz,
                   start_time, inspected, connectedAt, drainedAt, sockets,
                   streaming, calledAt, wire, state>>

\* line 33 with a host that does not resolve (whatever the port), or refused,
\* unreachable, or not done within connect_timeout: socket.error /
\* socket.timeout, caught at line 81
ConnectFail ==
    /\ pc = "connect"
    /\ connects' = connects + 1
    /\ \E d \in Delays \cup {CONN_TIMEOUT * TicksPerSec} : now' = now + d
    /\ Leave(RetConnectError, <<"Connection error">>)
    /\ UNCHANGED <<port, realdata, pending, sentFrames, x, idx, node_time,
                   raisedOn, binkpdate, req_duration, metric, systz,
                   start_time, inspected, connectedAt, drainedAt, sockets,
                   streaming, calledAt, wire, state>>

\* lines 33-34: connected; settimeout(read_timeout)
ConnectOk ==
    /\ pc = "connect"
    /\ connects' = connects + 1
    /\ port \in 0..MaxPort
    /\ \E d \in Delays : now' = now + d
    /\ connectedAt' = Some(now')
    /\ pc' = "sleep"
    /\ UNCHANGED <<port, s, realdata, pending, sentFrames, x, idx, node_time,
                   raisedOn, binkpdate, req_duration, result, printed, metric,
                   systz, start_time, inspected, drainedAt, sockets, streaming,
                   calledAt, wire, state>>

\* lines 35-37: time.sleep(1); realdata = bytearray()
Sleep ==
    /\ pc = "sleep"
    /\ now' = now + GraceSeconds * TicksPerSec
    /\ realdata' = <<>>
    /\ pc' = "recv"
    /\ UNCHANGED <<port, s, pending, sentFrames, x, idx, node_time, raisedOn,
                   binkpdate, req_duration, result, printed, metric, systz,
                   start_time, inspected, connectedAt, drainedAt, sockets,
                   streaming, calledAt, wire, connects, state>>

\* what the peer may write next: the rest of the frame it is in, or a new
\* frame while it has frames left to send
PeerStream ==
    IF pending # <<>> THEN {pending}
    ELSE IF sentFrames < MaxFrames THEN WireFrames ELSE {}

\* lines 40-43: recv returns 1..128 bytes, appended to realdata
RecvData ==
    /\ pc = "recv"
    /\ streaming = 0
    /\ \E stream \in PeerStream :
         \E k \in 1..Min(RecvSize, Len(stream)) :
            /\ realdata' = realdata \o Take(stream, k)
            /\ pending' = Drop(stream, k)
            /\ wire' = IF pending = <<>> THEN Append(wire, stream) ELSE wire
    /\ sentFrames' = IF pending = <<>> THEN sentFrames + 1 ELSE sentFrames
    /\ UNCHANGED <<pc, port, s, x, idx, node_time, raisedOn, binkpdate,
                   req_duration, result, printed, metric, now, systz,
                   start_time, inspected, connectedAt, drainedAt, sockets,
                   streaming, calledAt, connects, state>>

\* lines 40-43 against a peer that, its frames sent, streams on without a
\* pause and without closing: every recv returns data before read_timeout.
\* The bytes beyond the frames are appended too; realdata tracks the frames.
RecvMore ==
    /\ pc = "recv"
    /\ pending = <<>>
    /\ sentFrames = MaxFrames
    /\ streaming' = IF streaming = 1 THEN 2 ELSE 1
    /\ UNCHANGED <<pc, port, s, realdata, pending, sentFrames, x, idx,
                   node_time, raisedOn, binkpdate, req_duration, result,
                   printed, metric, now, systz, start_time, inspected,
                   connectedAt, drainedAt, sockets, calledAt,
                   wire, connects, state>>

\* lines 41-42: recv returns b'' (the peer closed): break
RecvClosed ==
    /\ pc = "recv"
    /\ streaming = 0
    /\ drainedAt' = Some(now)
    /\ pc' = "drained"
    /\ UNCHANGED <<port, s, realdata, pending, sentFrames, x, idx, node_time,
                   raisedOn, binkpdate, req_duration, result, printed, metric,
                   now, systz, start_time, inspected, connectedAt, sockets,
                   streaming, calledAt, wire, connects, state>>

\* lines 44-45 without the socket.timeout handler: the timeout falls to the
\* handler of lines 46-48
RecvTimeout_Fault ==
    /\ pc = "recv"
    /\ streaming = 0
    /\ now' = now + READ_TIMEOUT * TicksPerSec
    /\ drainedAt' = Some(now')
    /\ Leave(RetRecvError, <<"Error receiving data">>)
    /\ UNCHANGED <<port, realdata, pending, sentFrames, x, idx, node_time,
                   raisedOn, binkpdate, req_duration, metric, systz,
                   start_time, inspected, connectedAt, sockets, streaming,
                   calledAt, wire, connects, state>>

\* lines 44-45: no byte within read_timeout: socket.timeout, break
RecvTimeout ==
    /\ pc = "recv"
    /\ streaming = 0
    /\ now' = now + READ_TIMEOUT * TicksPerSec
    /\ drainedAt' = Some(now')
    /\ pc' = "drained"
    /\ UNCHANGED <<port, s, realdata, pending, sentFrames, x, idx, node_time,
                   raisedOn, binkpdate, req_duration, result, printed, metric,
                   systz, start_time, inspected, connectedAt, sockets,
                   streaming, calledAt, wire, connects, state>>

\* lines 46-48: any other exception of recv (connection reset): return None
RecvFault ==
    /\ pc = "recv"
    /\ Leave(RetRecvError, <<"Error receiving data">>)
    /\ UNCHANGED <<port, realdata, pending, sentFrames, x, idx, node_time,
                   raisedOn, binkpdate, req_duration, metric, now, systz,
                   start_time, inspected, connectedAt, drainedAt, sockets,
                   streaming, calledAt, wire, connects, state>>

\* lines 50-52: nothing was received
NoData ==
    /\ pc = "drained"
    /\ realdata = <<>>
    /\ Leave(RetNoData, <<"No data received">>)
    /\ UNCHANGED <<port, realdata, pending, sentFrames, x, idx, node_time,
                   raisedOn, binkpdate, req_duration, metric, now, systz,
                   start_time, inspected, connectedAt, drainedAt, sockets,
                   streaming, calledAt, wire, connects, state>>

\* lines 54-56 reached without the test of line 50
Decode_Unchecked ==
    /\ pc = "drained"
    /\ x' = GreedyRange(realdata)
    /\ idx' = 1
    /\ pc' = "scan"
    /\ UNCHANGED <<port, s, realdata, pending, sentFrames, node_time, raisedOn,
                   binkpdate, req_duration, result, printed, metric, now,
                   systz, start_time, inspected, connectedAt, drainedAt,
                   sockets, streaming, calledAt, wire, connects, state>>

\* lines 54-56: x = GreedyRange(binkp10format).parse(realdata).  GreedyRange
\* raises nothing, so the handler of lines 57-59 ("Error parsing BinkP
\* protocol") is never entered.
Decode ==
    /\ pc = "drained"
    /\ realdata # <<>>
    /\ x' = GreedyRange(realdata)
    /\ idx' = 1
    /\ pc' = "scan"
    /\ UNCHANGED <<port, s, realdata, pending, sentFrames, node_time, raisedOn,
                   binkpdate, req_duration, result, printed, metric, now,
                   systz, start_time, inspected, connectedAt, drainedAt,
                   sockets, streaming, calledAt, wire, connects, state>>

\* the for loop takes item x[idx]
Taking ==
    /\ pc = "scan"
    /\ idx <= Len(x)

\* line 63 raising UnicodeDecodeError, with "return None" for the "continue"
\* of line 78
ScanUndecodable_Return ==
    /\ Taking
    /\ ~IsAscii(x[idx].string)
    /\ inspected' = Append(inspected, idx)
    /\ Leave(ReturnNone, <<"Error processing item">>)
    /\ UNCHANGED <<port, realdata, pending, sentFrames, x, idx, node_time,
                   raisedOn, binkpdate, req_duration, metric, now, systz,
                   start_time, connectedAt, drainedAt, sockets, streaming,
                   calledAt, wire, connects, state>>

\* line 63 raising UnicodeDecodeError: lines 76-78 print and continue
ScanUndecodable ==
    /\ Taking
    /\ ~IsAscii(x[idx].string)
    /\ inspected' = Append(inspected, idx)
    /\ printed' = Append(printed, "Error processing item")
    /\ idx' = idx + 1
    /\ UNCHANGED <<pc, port, s, realdata, pending, sentFrames, x, node_time,
                   raisedOn, binkpdate, req_duration, result, metric, now,
                   systz, start_time, connectedAt, drainedAt, sockets,
                   streaming, calledAt, wire, connects, state>>

\* lines 63-64: the text does not start with "TIME ": next item
ScanOther ==
    /\ Taking
    /\ IsAscii(x[idx].string)
    /\ ~StartsWith(x[idx].string, TimePrefix)
    /\ inspected' = Append(inspected, idx)
    /\ idx' = idx + 1
    /\ UNCHANGED <<pc, port, s, realdata, pending, sentFrames, x, node_time,
                   raisedOn, binkpdate, req_duration, result, printed, metric,
                   now, systz, start_time, connectedAt, drainedAt, sockets,
                   streaming, calledAt, wire, connects, state>>

\* lines 63-64: the text of item x[idx] starts with "TIME "
TakingTime ==
    /\ Taking
    /\ IsAscii(x[idx].string)
    /\ StartsWith(x[idx].string, TimePrefix)

\* what dateparser.parse may give for text in this probe: it is a function
\* of the text, so a text it raised on makes it raise again
ParseOutcomes(text) ==
    IF text \in raisedOn THEN {r \in ParserResults(text) : r.kind = "raise"}
    ELSE ParserResults(text)

\* lines 65-66: node_time is cut out and handed to dateparser.parse, which
\* takes d ticks
ParseTime(d) ==
    /\ inspected' = Append(inspected, idx)
    /\ node_time' = Some(NodeTime(x[idx].string))
    /\ now' = now + d

\* lines 67-69: dateparser found no date
ScanTimeNone ==
    /\ TakingTime
    /\ \E r \in ParseOutcomes(NodeTime(x[idx].string)), d \in Delays :
          /\ r.kind = "none"
          /\ ParseTime(d)
    /\ Leave(RetDateFail, <<"Failed to parse BinkP date">>)
    /\ UNCHANGED <<port, realdata, pending, sentFrames, x, idx, raisedOn,
                   binkpdate, req_duration, metric, systz, start_time,
                   connectedAt, drainedAt, sockets, streaming, calledAt,
                   wire, connects, state>>

\* line 66 raising: lines 76-78 print and continue with the next item
ScanTimeRaise ==
    /\ TakingTime
    /\ \E r \in ParseOutcomes(NodeTime(x[idx].string)), d \in Delays :
          /\ r.kind = "raise"
          /\ ParseTime(d)
    /\ raisedOn' = raisedOn \cup {NodeTime(x[idx].string)}
    /\ printed' = Append(printed, "Error processing item")
    /\ idx' = idx + 1
    /\ UNCHANGED <<pc, port, s, realdata, pending, sentFrames, x, binkpdate,
                   req_duration, result, metric, systz, start_time,
                   connectedAt, drainedAt, sockets, streaming, calledAt,
                   wire, connects, state>>

\* lines 66-75: a date was found; the drift is returned
ScanTimeDrift ==
    /\ TakingTime
    /\ \E r \in ParseOutcomes(NodeTime(x[idx].string)), d \in Delays :
          /\ r.kind \in {"naive", "aware"}
          /\ ParseTime(d)
          /\ binkpdate' = Some(r)
          /\ req_duration' = Some(ReqDuration(now', systz, start_time))
          /\ Leave(ReturnDrift(Drift(Delta(Today(now', r, systz), r),
                                     ReqDuration(now', systz, start_time))),
                   <<>>)
    /\ UNCHANGED <<port, realdata, pending, sentFrames, x, idx, raisedOn,
                   metric, systz, start_time, connectedAt, drainedAt, sockets,
                   streaming, calledAt, wire, connects, state>>

\* lines 79-80: the loop ran out of items
ScanEnd ==
    /\ pc = "scan"
    /\ idx > Len(x)
    /\ Leave(RetNotFound, <<"No TIME message found">>)
    /\ UNCHANGED <<port, realdata, pending, sentFrames, x, idx, node_time,
                   raisedOn, binkpdate, req_duration, metric, now, systz,
                   start_time, inspected, connectedAt, drainedAt, sockets,
                   streaming, calledAt, wire, connects, state>>

----------------------------------------------------------------------------
(* BinkpNodeCheck.probe *)

\* lines 97-99: the value of the metric, in ticks: -1 (second) for None, the
\* drift otherwise
MetricValue(time_diff) ==
    IF time_diff.kind = "None" THEN FailMetric * TicksPerSec
    ELSE time_diff.value

\* lines 96-99: None becomes the metric -1, a drift becomes the metric
ProbeMetric ==
    /\ pc = "done"
    /\ result.kind \in {"None", "drift"}
    /\ metric' = Some(MetricValue(result))
    /\ pc' = "reported"
    /\ UNCHANGED <<port, s, realdata, pending, sentFrames, x, idx, node_time,
                   raisedOn, binkpdate, req_duration, result, printed, now,
                   systz, start_time, inspected, connectedAt, drainedAt,
                   sockets, streaming, calledAt, wire, connects, state>>

\* line 96: an exception of binkp_node_parse passes through probe
ProbeRaised ==
    /\ pc = "done"
    /\ result.kind = "exception"
    /\ pc' = "reported"
    /\ UNCHANGED <<port, s, realdata, pending, sentFrames, x, idx, node_time,
                   raisedOn, binkpdate, req_duration, result, printed, metric,
                   now, systz, start_time, inspected, connectedAt, drainedAt,
                   sockets, streaming, calledAt, wire, connects, state>>

----------------------------------------------------------------------------
(* main: the check with its ScalarContext (nagiosplugin) *)

\* lines 112-115: the default range specs "6:10" and "0:5", as
\* <<start, end>> in seconds; <<>> is the empty spec ''
WarningRange == <<6, 10>>
CriticalRange == <<0, 5>>
NoRange == <<>>

\* Range(spec): "start:end"; the empty spec is 0..infinity
Range(spec) ==
    IF spec = <<>> THEN [start |-> 0, end |-> 0, bounded |-> FALSE]
    ELSE [start |-> spec[1], end |-> spec[2], bounded |-> TRUE]

\* Range.match: the value lies within start..end; v is in ticks
RangeMatch(range, v) ==
    /\ range.start * TicksPerSec <= v
    /\ range.bounded => (v <= range.end * TicksPerSec)

\* the contexts of the check: the ScalarContext 'binkpnodedrift' of lines
\* 128-132, and the context 'default' that every nagiosplugin check has, a
\* ScalarContext without thresholds
Contexts(name) ==
    IF name = "binkpnodedrift"
    THEN [warning |-> Range(WarningRange), critical |-> Range(CriticalRange)]
    ELSE [warning |-> Range(NoRange), critical |-> Range(NoRange)]

\* lines 98-99 with the context left out: it is then the metric's name
MetricContext_ByName == "binkpnodedrift"

\* lines 98-99: Metric('binkpnodedrift', ..., context='default')
MetricContext == "default"

\* ScalarContext.evaluate: Critical if the critical range does not match,
\* else Warn if the warning range does not match, else Ok
Evaluate(context, v) ==
    IF ~RangeMatch(context.critical, v) THEN "critical"
    ELSE IF ~RangeMatch(context.warning, v) THEN "warning"
    ELSE "ok"

\* lines 126-135: check.main() evaluates the metric of probe in the context
\* the metric names
CheckEvaluate ==
    /\ pc = "reported"
    /\ metric # Unset
    /\ state' = Evaluate(Contexts(MetricContext), metric[1])
    /\ pc' = "evaluated"
    /\ UNCHANGED <<port, s, realdata, pending, sentFrames, x, idx, node_time,
                   raisedOn, binkpdate, req_duration, result, printed, metric,
                   now, systz, start_time, inspected, connectedAt, drainedAt,
                   sockets, streaming, calledAt, wire, connects>>

\* lines 109, 135: an exception out of probe ends the check in Unknown
CheckUnknown ==
    /\ pc = "reported"
    /\ metric = Unset
    /\ state' = "unknown"
    /\ pc' = "evaluated"
    /\ UNCHANGED <<port, s, realdata, pending, sentFrames, x, idx, node_time,
                   raisedOn, binkpdate, req_duration, result, printed, metric,
                   now, systz, start_time, inspected, connectedAt, drainedAt,
                   sockets, streaming, calledAt, wire, connects>>

----------------------------------------------------------------------------

Next ==
    \/ Call
    \/ SocketOk
    \/ SocketFail
    \/ ConnectBadPort
    \/ ConnectFail
    \/ ConnectOk
    \/ Sleep
    \/ RecvData
    \/ RecvMore
    \/ RecvClosed
    \/ RecvTimeout
    \/ RecvFault
    \/ NoData
    \/ Decode
    \/ ScanUndecodable
    \/ ScanOther
    \/ ScanTimeNone
    \/ ScanTimeRaise
    \/ ScanTimeDrift
    \/ ScanEnd
    \/ ProbeMetric
    \/ ProbeRaised
    \/ CheckEvaluate
    \/ CheckUnknown

Spec == Init /\ [][Next]_vars

\* The probe is one thread that takes its next step whenever it has one.
FairSpec == Spec /\ WF_vars(Next)

----------------------------------------------------------------------------
(* Properties *)

\* binkp_node_parse has returned or raised
Terminal == result.kind # "unset"

\* the read loop ended by a close or a timeout
Drained == drainedAt # Unset

Last(q) == q[Len(q)]

LastPrinted == IF printed = <<>> THEN "" ELSE Last(printed)

\* buf ends inside a frame: fewer than 3 header bytes at a frame boundary, or
\* fewer than length-1 payload bytes after a header
RECURSIVE EndsInsideFrame(_)
EndsInsideFrame(buf) ==
    IF buf = <<>> THEN FALSE
    ELSE IF Len(buf) < 3 THEN TRUE
    ELSE IF buf[2] = 0 THEN FALSE
    ELSE IF Len(buf) - 3 < buf[2] - 1 THEN TRUE
    ELSE EndsInsideFrame(Drop(buf, 3 + buf[2] - 1))

\* item i of x decodes to a text that begins with "TIME "
IsTimeFrame(i) == IsAscii(x[i].string) /\ StartsWith(x[i].string, TimePrefix)

\* the inspected TIME frames, as indices of x
InspectedTime ==
    {inspected[k] : k \in {j \in 1..Len(inspected) : IsTimeFrame(inspected[j])}}

\* the TIME frame inspected last
LastTime == CHOOSE i \in InspectedTime : \A j \in InspectedTime : j <= i

\* C1: whenever the drained buffer ends inside a frame, the probe ends in a
\* frame-decode failure: the tail is not silently dropped and no drift is
\* produced from the frames decoded before it.
C1_TruncatedBufferFails ==
    (Terminal /\ Drained /\ EndsInsideFrame(realdata))
        => (result.kind = "None"
            /\ LastPrinted = "Error parsing BinkP protocol")

\* C2: a failed probe reports its failure kind distinguishably: the value
\* the caller gets when no TIME frame was found is not the value it gets for
\* a connect failure, a receive fault, an empty response or an unparseable
\* TIME text.
C2_NotFoundDistinguishable ==
    (Terminal /\ LastPrinted = "No TIME message found")
        => result \notin {RetConnectError, RetRecvError, RetNoData, RetDateFail}

\* C3: the text handed to the date parser is the whole remainder of the
\* TIME frame's text after the five prefix characters.
C3_WholeRemainderHanded ==
    (node_time # Unset)
        => node_time[1] = Drop(x[LastTime].string, Len(TimePrefix))

\* C4: no frame after the first frame whose text begins with "TIME " is
\* inspected, whatever the processing of that frame yields.
C4_FirstTimeFrameEndsScan ==
    \A j \in 1..Len(inspected) : \A k \in 1..Len(inspected) :
        (j < k) => ~IsTimeFrame(inspected[j])

\* C5: every probe eventually reaches a terminal outcome, whatever the peer
\* does after the connection attempt.
C5_ProbeTerminates == <>Terminal

\* C6: in every terminal state of a probe in which a socket was created,
\* that socket has been closed.
C6_SocketClosed == (Terminal /\ sockets > 0) => s = "closed"

\* C6 witness: an exception escaped the function after the socket was
\* created, and the socket is closed
C6_Witness == result.kind = "exception" /\ sockets = 1 /\ s = "closed"

C8_NaiveDateFails ==
    (result.kind = "drift") => binkpdate[1].kind = "aware"

\* C9: for a TIME text that resolves to an absolute instant, the drift is a
\* function of that instant and the clock alone: it depends neither on the
\* zone the text is expressed in nor on the host's system zone.
C9_DriftZoneIndependent ==
    (result.kind = "drift" /\ binkpdate[1].kind = "aware")
        => result.value =
              Abs((TruncSec(now) - (binkpdate[1].wall - binkpdate[1].tz))
                  - (now - TruncSec(calledAt)))

\* C9 witness: a drift from a text in a zone that is neither UTC nor the
\* host's system zone
C9_Witness ==
    /\ result.kind = "drift"
    /\ binkpdate[1].kind = "aware"
    /\ binkpdate[1].tz # 0
    /\ binkpdate[1].tz # systz
    /\ systz # 0

\* C10: binkp_node_parse lets no exception escape to its caller.
C10_NoExceptionEscapes == result.kind # "exception"

\* parser.parse(realdata) has returned
Decoded == Drained /\ realdata # <<>> /\ pc # "drained"

\* f is a well-formed frame: length >= 1 and exactly length-1 payload bytes
WellFormed(f) == Len(f) >= 3 /\ f[2] >= 1 /\ Len(f) = 3 + f[2] - 1

\* the peer wrote well-formed frames only, and all of them were received
WholeFramesReceived ==
    /\ pending = <<>>
    /\ \A i \in 1..Len(wire) : WellFormed(wire[i])

\* C11: a buffer that is the concatenation of N well-formed frames decodes
\* to exactly N items, in wire order, each with the type, length, cmdargs
\* and payload of the frame sent.
C11_DecodeKeepsFrames ==
    (Decoded /\ WholeFramesReceived)
        => /\ Len(x) = Len(wire)
           /\ \A i \in 1..Len(wire) :
                 /\ x[i].type = wire[i][1]
                 /\ x[i].length = wire[i][2]
                 /\ x[i].cmdargs = wire[i][3]
                 /\ x[i].string = Drop(wire[i], 3)

\* C11 witness: two different well-formed frames, the first with an empty
\* payload, were received whole and decoded
C11_Witness ==
    /\ Decoded
    /\ WholeFramesReceived
    /\ Len(wire) = MaxFrames
    /\ Len(x) = MaxFrames
    /\ Len(wire[1]) = 3
    /\ wire[1] # wire[2]

\* concatenation of a sequence of byte sequences
RECURSIVE Flat(_)
Flat(ss) == IF ss = <<>> THEN <<>> ELSE Head(ss) \o Flat(Tail(ss))

\* the bytes the peer wrote that recv has returned, in arrival order
Delivered == Take(Flat(wire), Len(Flat(wire)) - Len(pending))

Elements(q) == {q[i] : i \in 1..Len(q)}

\* C12: a timeout of recv and an empty read both end the loop without a
\* failure: with at least one byte accumulated the probe goes on to decode
\* exactly the bytes received so far, in arrival order.
C12_LoopEndDecodesBuffer ==
    (Drained /\ realdata # <<>>)
        => /\ realdata = Delivered
           /\ pc \in {"drained", "scan", "done", "reported", "evaluated"}
           /\ Elements(printed)
                 \cap {"Error receiving data", "No data received",
                       "Connection error"} = {}
           /\ (pc # "drained") => (x = GreedyRange(Delivered))

\* C12 witness: the peer went silent in the middle of its second frame, the
\* read timed out, and the first frame was decoded
C12_Witness ==
    /\ Decoded
    /\ pending # <<>>
    /\ Len(wire) = 2
    /\ Len(x) = 1
    /\ drainedAt[1] - connectedAt[1]
          = (GraceSeconds + READ_TIMEOUT) * TicksPerSec

\* C13: if the buffer is empty when the read loop ends, the probe fails with
\* the empty-response outcome; nothing is decoded and no frame is scanned.
C13_EmptyResponseFails ==
    (Drained /\ realdata = <<>>)
        => /\ pc # "scan"
           /\ x = <<>> /\ inspected = <<>> /\ node_time = Unset
           /\ Terminal => /\ result = RetNoData
                          /\ printed = <<"No data received">>

\* C13 witness: the peer went silent without sending a byte and the probe
\* has returned
C13_Witness ==
    /\ Drained
    /\ realdata = <<>>
    /\ wire = <<>>
    /\ Terminal
    /\ drainedAt[1] > connectedAt[1] + GraceSeconds * TicksPerSec

\* no item of x decodes to a text that begins with "TIME "
NoTimeFrame == \A i \in 1..Len(x) : ~IsTimeFrame(i)

\* C14: when no decoded frame has a text that begins with "TIME ", the scan
\* inspects every frame and the probe ends in the not-found failure, without
\* a drift.
C14_NoTimeFrameNotFound ==
    (Terminal /\ Decoded /\ NoTimeFrame)
        => /\ inspected = [i \in 1..Len(x) |-> i]
           /\ result = RetNotFound
           /\ result.kind # "drift"
           /\ LastPrinted = "No TIME message found"

\* C14 witness: two frames without a TIME text were scanned, one of them
\* "TIME " followed by a byte that is not ASCII, and the probe has returned
C14_Witness ==
    /\ Terminal
    /\ Decoded
    /\ NoTimeFrame
    /\ Len(x) = 2
    /\ x[1].string = TimePrefix \o <<200>>
    /\ IsAscii(x[2].string)

\* the phases of a probe, in order
PhaseRank(p) ==
    CASE p = "idle"      -> 0
      [] p = "socket"    -> 1
      [] p = "connect"   -> 2
      [] p = "sleep"     -> 3
      [] p = "recv"      -> 4
      [] p = "drained"   -> 5
      [] p = "scan"      -> 6
      [] p = "done"      -> 7
      [] p = "reported"  -> 8
      [] p = "evaluated" -> 9

\* C15: a probe makes at most one connection attempt on at most one socket,
\* moves only forward through its phases, and after its terminal outcome
\* neither reads from the socket nor connects again.
C15_SingleForwardPass ==
    /\ [](connects <= 1 /\ sockets <= 1)
    /\ [][PhaseRank(pc') >= PhaseRank(pc)]_vars
    /\ [][Terminal => /\ connects' = connects
                      /\ sockets' = sockets
                      /\ realdata' = realdata
                      /\ s' = s
                      /\ result' = result]_vars

\* C15 witness: the one connection attempt failed and the probe has been
\* reported, with no second attempt
C15_Witness ==
    /\ pc = "reported"
    /\ connects = 1
    /\ sockets = 1
    /\ printed = <<"Connection error">>

\* C16: every frame the decoder produces has length >= 1 and a payload of
\* exactly length-1 bytes; a header whose length byte is 0 produces no frame.
C16_FramesHaveDeclaredLength ==
    /\ \A i \in 1..Len(x) :
          /\ x[i].length >= 1
          /\ Len(x[i].string) = x[i].length - 1
    /\ (Decoded /\ pending = <<>>)
          => Len(x) = Cardinality({i \in 1..Len(wire) :
                          \A j \in 1..i : WellFormed(wire[j])})

\* C16 witness: a well-formed frame and then a header with length 0 were
\* received and decoded into one frame
C16_Witness ==
    /\ Decoded
    /\ pending = <<>>
    /\ Len(wire) = 2
    /\ WellFormed(wire[1])
    /\ wire[2][2] = 0
    /\ Len(x) = 1

\* C17: the metric is -1 exactly when binkp_node_parse returned None, and
\* every drift returned is >= 0: -1 never stands for a measured drift.
C17_FailMetricOnlyForNone ==
    /\ (result.kind = "drift") => (result.value >= 0)
    /\ (metric # Unset)
          => ((metric[1] = FailMetric * TicksPerSec) <=> (result.kind = "None"))

\* C17 witness: a metric was built from a drift whose signed value, delta
\* minus the request duration, is negative
C17_Witness ==
    /\ metric # Unset
    /\ result.kind = "drift"
    /\ metric[1] > 0
    /\ binkpdate[1].wall - (IF binkpdate[1].kind = "aware"
                            THEN binkpdate[1].tz ELSE systz) > now

====
